---- MODULE Spec2Model ----
(***************************************************************************)
(* Model of the re9ai WhatsApp adapter: the webhook handlers, the message  *)
(* service (PostgreSQL table whatsapp_messages behind a Redis cache) and   *)
(* the outbound send path.                                                 *)
(*                                                                         *)
(* Every HTTP request runs on its own goroutine.  A handler is cut into    *)
(* steps at its accesses to shared state (one SQL statement, one Redis     *)
(* command, the provider call); the code between two accesses touches only *)
(* the request's own data and is folded into the step that precedes it.    *)
(* Timestamps (time.Now()) are not modelled.                               *)
(***************************************************************************)
EXTENDS Naturals, Sequences, FiniteSets

VARIABLES
    store,      \* rows of table whatsapp_messages
    cache,      \* Redis: key "message:<id>" -> cached message, or NoEntry
    nextId,     \* number of uuid.New() calls made so far
    inflight,   \* requests between two of their steps
    tasks,      \* goroutines started by HandleMessage
    issued,     \* message sids the provider has returned to a send call
    ev,         \* history: what the last step did, with its HTTP response
    secret,     \* cfg.WhatsAppWebhookSecret, "" when none is configured
    rx,         \* history: url, X-Twilio-Signature header and form of the
                \* webhook the last step received, Nil when it received none
    attempts    \* history: the outcomes of the runs of each downstream task
                \* of each message, in the order of the runs

vars == <<store, cache, nextId, inflight, tasks, issued, ev, secret, rx, attempts>>

\* the variables of the signature middleware
authVars == <<secret, rx>>

----------------------------------------------------------------------------
(* Bounds of the model *)

\* uuid.New() is called at most MaxIds times
MaxIds == 2

\* at most MaxInFlight requests are between two of their steps
MaxInFlight == 1

\* the destination addresses of the send requests have at most MaxNumberLen
\* characters, after the scheme if they carry one
MaxNumberLen == 3

----------------------------------------------------------------------------
(* Values *)

\* Pointers, nullable columns and optional values are sequences of length
\* at most one: Nil is the nil pointer (SQL NULL, an absent Redis key),
\* Ptr(v) points to v.
Nil == <<>>
Ptr(v) == <<v>>
Deref(p) == p[1]

MessageDirectionInbound == "inbound"
MessageDirectionOutbound == "outbound"

MessageStatusPending == "pending"
MessageStatusSent == "sent"
MessageStatusDelivered == "delivered"
MessageStatusRead == "read"
MessageStatusFailed == "failed"

MessageTypeText == "text"
MessageTypeImage == "image"
MessageTypeDocument == "document"
MessageTypeAudio == "audio"
MessageTypeVideo == "video"
MessageTypeLocation == "location"
MessageTypeContact == "contact"

MessageDirections == {MessageDirectionInbound, MessageDirectionOutbound}

MessageStatuses ==
    {MessageStatusPending, MessageStatusSent, MessageStatusDelivered,
     MessageStatusRead, MessageStatusFailed}

MessageTypes ==
    {MessageTypeText, MessageTypeImage, MessageTypeDocument, MessageTypeAudio,
     MessageTypeVideo, MessageTypeLocation, MessageTypeContact}

\* cfg.TwilioWhatsAppFrom, the adapter's own number
fromNumber == "whatsapp:+14155238886"

Ids == 1..MaxIds

\* the goroutines HandleMessage starts
TaskKinds == {"processMediaAsync", "forwardToOrchestrator"}

\* provider message identifiers (MessageSid): the provider names the messages
\* it delivers and the messages it accepts for sending apart
InboundSids == {"SM1"}
OutboundSids == {"SM2"}
Sids == InboundSids \cup OutboundSids

----------------------------------------------------------------------------
(* Strings that the code inspects character by character are sequences of  *)
(* one-character strings.                                                   *)

Upper == <<"A","B","C","D","E","F","G","H","I","J","K","L","M",
           "N","O","P","Q","R","S","T","U","V","W","X","Y","Z">>
Lower == <<"a","b","c","d","e","f","g","h","i","j","k","l","m",
           "n","o","p","q","r","s","t","u","v","w","x","y","z">>

\* strings.ToLower on one character
LowerChar(c) ==
    IF \E i \in 1..26 : Upper[i] = c
    THEN Lower[CHOOSE i \in 1..26 : Upper[i] = c]
    ELSE c

\* strings.ToLower
ToLower(s) == [i \in 1..Len(s) |-> LowerChar(s[i])]

\* strings.HasPrefix
HasPrefix(s, p) == Len(s) >= Len(p) /\ SubSeq(s, 1, Len(p)) = p

S_queued == <<"q","u","e","u","e","d">>
S_accepted == <<"a","c","c","e","p","t","e","d">>
S_sent == <<"s","e","n","t">>
S_delivered == <<"d","e","l","i","v","e","r","e","d">>
S_read == <<"r","e","a","d">>
S_failed == <<"f","a","i","l","e","d">>
S_undelivered == <<"u","n","d","e","l","i","v","e","r","e","d">>

S_image == <<"i","m","a","g","e","/">>
S_video == <<"v","i","d","e","o","/">>
S_audio == <<"a","u","d","i","o","/">>
S_application == <<"a","p","p","l","i","c","a","t","i","o","n","/">>
S_pdf == S_application \o <<"p","d","f">>
S_jpeg == S_image \o <<"j","p","e","g">>

\* mapTwilioStatus switching on twilioStatus itself, without strings.ToLower
mapTwilioStatus_CaseSensitive(twilioStatus) ==
    LET s == twilioStatus IN
    CASE s = S_queued \/ s = S_accepted -> MessageStatusPending
      [] s = S_sent -> MessageStatusSent
      [] s = S_delivered -> MessageStatusDelivered
      [] s = S_read -> MessageStatusRead
      [] s = S_failed \/ s = S_undelivered -> MessageStatusFailed
      [] OTHER -> MessageStatusPending

\* mapTwilioStatus maps Twilio status to our internal status
mapTwilioStatus(twilioStatus) ==
    LET s == ToLower(twilioStatus) IN
    CASE s = S_queued \/ s = S_accepted -> MessageStatusPending
      [] s = S_sent -> MessageStatusSent
      [] s = S_delivered -> MessageStatusDelivered
      [] s = S_read -> MessageStatusRead
      [] s = S_failed \/ s = S_undelivered -> MessageStatusFailed
      [] OTHER -> MessageStatusPending

\* determineMessageType without the case for application/ in general
determineMessageType_PdfOnly(contentType) ==
    CASE HasPrefix(contentType, S_image) -> MessageTypeImage
      [] HasPrefix(contentType, S_video) -> MessageTypeVideo
      [] HasPrefix(contentType, S_audio) -> MessageTypeAudio
      [] HasPrefix(contentType, S_pdf) -> MessageTypeDocument
      [] OTHER -> MessageTypeText

\* determineMessageType determines the message type from the content type
determineMessageType(contentType) ==
    CASE HasPrefix(contentType, S_image) -> MessageTypeImage
      [] HasPrefix(contentType, S_video) -> MessageTypeVideo
      [] HasPrefix(contentType, S_audio) -> MessageTypeAudio
      [] HasPrefix(contentType, S_pdf) -> MessageTypeDocument
      [] HasPrefix(contentType, S_application) -> MessageTypeDocument
      [] OTHER -> MessageTypeText

----------------------------------------------------------------------------
(* internal/services/whatsapp.go *)

\* strconv.Atoi on the numerals the webhooks of the model carry
Atoi(s) ==
    CASE s = "0" -> [ok |-> TRUE, n |-> 0]
      [] s = "1" -> [ok |-> TRUE, n |-> 1]
      [] s = "2" -> [ok |-> TRUE, n |-> 2]
      [] OTHER -> [ok |-> FALSE, n |-> 0]

\* ProcessIncomingMessage taking the media from MediaUrl0 whatever NumMedia says
ProcessIncomingMessage_IgnoreNumMedia(webhookData, id) ==
    LET hasMedia == webhookData.MediaUrl0 # ""
    IN  [ID |-> id,
         TwilioSID |-> webhookData.MessageSid,
         From |-> webhookData.From,
         To |-> webhookData.To,
         Direction |-> MessageDirectionInbound,
         Type |-> IF hasMedia
                  THEN determineMessageType(webhookData.MediaContentType0)
                  ELSE MessageTypeText,
         Status |-> MessageStatusDelivered,
         Content |-> webhookData.Body,
         MediaURL |-> IF hasMedia THEN Ptr(webhookData.MediaUrl0) ELSE Nil,
         MediaType |-> IF hasMedia THEN Ptr(webhookData.MediaContentType0) ELSE Nil,
         ErrorCode |-> Nil,
         ErrorMsg |-> Nil]

\* ProcessIncomingMessage leaving MediaType nil for an empty MediaContentType0
ProcessIncomingMessage_OptionalType(webhookData, id) ==
    LET numMedia == Atoi(webhookData.NumMedia)
        hasMedia == numMedia.ok /\ numMedia.n > 0 /\ webhookData.MediaUrl0 # ""
    IN  [ID |-> id,
         TwilioSID |-> webhookData.MessageSid,
         From |-> webhookData.From,
         To |-> webhookData.To,
         Direction |-> MessageDirectionInbound,
         Type |-> IF hasMedia
                  THEN determineMessageType(webhookData.MediaContentType0)
                  ELSE MessageTypeText,
         Status |-> MessageStatusDelivered,
         Content |-> webhookData.Body,
         MediaURL |-> IF hasMedia THEN Ptr(webhookData.MediaUrl0) ELSE Nil,
         MediaType |-> IF hasMedia /\ webhookData.MediaContentType0 # <<>>
                       THEN Ptr(webhookData.MediaContentType0) ELSE Nil,
         ErrorCode |-> Nil,
         ErrorMsg |-> Nil]

\* ProcessIncomingMessage: the WhatsAppMessage built from a message webhook;
\* id is the value uuid.New() returns
ProcessIncomingMessage(webhookData, id) ==
    LET numMedia == Atoi(webhookData.NumMedia)
        hasMedia == numMedia.ok /\ numMedia.n > 0 /\ webhookData.MediaUrl0 # ""
    IN  [ID |-> id,
         TwilioSID |-> webhookData.MessageSid,
         From |-> webhookData.From,
         To |-> webhookData.To,
         Direction |-> MessageDirectionInbound,
         Type |-> IF hasMedia
                  THEN determineMessageType(webhookData.MediaContentType0)
                  ELSE MessageTypeText,
         Status |-> MessageStatusDelivered,
         Content |-> webhookData.Body,
         MediaURL |-> IF hasMedia THEN Ptr(webhookData.MediaUrl0) ELSE Nil,
         MediaType |-> IF hasMedia THEN Ptr(webhookData.MediaContentType0) ELSE Nil,
         ErrorCode |-> Nil,
         ErrorMsg |-> Nil]

\* ProcessStatusUpdate recording the error without update.Status = failed
ProcessStatusUpdate_KeepStatus(webhookData) ==
    [MessageSid |-> webhookData.MessageSid,
     Status |-> mapTwilioStatus(webhookData.SmsStatus),
     ErrorCode |-> IF webhookData.ErrorCode # ""
                   THEN Ptr(webhookData.ErrorCode) ELSE Nil,
     ErrorMessage |-> IF webhookData.ErrorCode # ""
                      THEN Ptr(webhookData.ErrorMessage) ELSE Nil]

\* ProcessStatusUpdate: the MessageStatusUpdate built from a status webhook
ProcessStatusUpdate(webhookData) ==
    IF webhookData.ErrorCode # ""
    THEN [MessageSid |-> webhookData.MessageSid,
          Status |-> MessageStatusFailed,
          ErrorCode |-> Ptr(webhookData.ErrorCode),
          ErrorMessage |-> Ptr(webhookData.ErrorMessage)]
    ELSE [MessageSid |-> webhookData.MessageSid,
          Status |-> mapTwilioStatus(webhookData.SmsStatus),
          ErrorCode |-> Nil,
          ErrorMessage |-> Nil]

S_whatsapp == <<"w","h","a","t","s","a","p","p",":">>

\* strings.ReplaceAll(s, old, "") for a one-character old
ReplaceAll(s, old) == SelectSeq(s, LAMBDA ch : ch # old)

\* formatWhatsAppNumber without the early return for a number that has the
\* scheme already
formatWhatsAppNumber_NoEarlyReturn(phoneNumber) ==
    LET cleaned ==
            ReplaceAll(ReplaceAll(ReplaceAll(ReplaceAll(phoneNumber,
                " "), "-"), "("), ")")
    IN  S_whatsapp \o (IF HasPrefix(cleaned, <<"+">>)
                       THEN cleaned ELSE <<"+">> \o cleaned)

\* formatWhatsAppNumber: a number with the scheme is returned as it is; from
\* any other, spaces, hyphens and parentheses are removed and the result is
\* given a leading + and the scheme
formatWhatsAppNumber(phoneNumber) ==
    IF HasPrefix(phoneNumber, S_whatsapp)
    THEN phoneNumber
    ELSE LET cleaned ==
                 ReplaceAll(ReplaceAll(ReplaceAll(ReplaceAll(phoneNumber,
                     " "), "-"), "("), ")")
         IN  S_whatsapp \o (IF HasPrefix(cleaned, <<"+">>)
                            THEN cleaned ELSE <<"+">> \o cleaned)

----------------------------------------------------------------------------
(* pkg/redis/client.go: the constraints of table whatsapp_messages *)

\* the table declared without UNIQUE on twilio_sid
ConstraintViolation_NoUniqueSid(rows, m) ==
    \/ \E r \in rows : r.ID = m.ID
    \/ m.Direction \notin MessageDirections
    \/ m.Type \notin MessageTypes
    \/ m.Status \notin MessageStatuses

\* whether INSERTing row m into rows violates a constraint of the table
ConstraintViolation(rows, m) ==
    \/ \E r \in rows : r.ID = m.ID                  \* id UUID PRIMARY KEY
    \/ \E r \in rows : r.TwilioSID = m.TwilioSID    \* twilio_sid UNIQUE
    \/ m.Direction \notin MessageDirections         \* CHECK (direction IN ...)
    \/ m.Type \notin MessageTypes                   \* CHECK (message_type IN ...)
    \/ m.Status \notin MessageStatuses              \* CHECK (status IN ...)

----------------------------------------------------------------------------
(* internal/services/message.go *)

\* StoreMessage, the INSERT: dbOK is whether the database executes the
\* statement at all (connection, timeout)
StoreInsert(rows, m, dbOK) ==
    IF dbOK /\ ~ConstraintViolation(rows, m)
    THEN [store |-> rows \cup {m}, err |-> "nil"]
    ELSE [store |-> rows, err |-> "failed to store message"]

\* redis.Set(ctx, "message:<id>", message, 24h): cacheOK is whether Redis
\* executes the command
CacheSet(c, m, cacheOK) ==
    IF cacheOK THEN [c EXCEPT ![m.ID] = Ptr(m)] ELSE c

\* the UPDATE with SET error_message = error_code (the column) for = $4
UpdateRows_ShiftedColumns(rows, statusUpdate) ==
    {IF r.TwilioSID = statusUpdate.MessageSid
     THEN [r EXCEPT !.Status = statusUpdate.Status,
                    !.ErrorCode = statusUpdate.ErrorCode,
                    !.ErrorMsg = r.ErrorCode]
     ELSE r : r \in rows}

\* the UPDATE without its WHERE clause
UpdateRows_NoWhere(rows, statusUpdate) ==
    {[r EXCEPT !.Status = statusUpdate.Status,
               !.ErrorCode = statusUpdate.ErrorCode,
               !.ErrorMsg = statusUpdate.ErrorMessage] : r \in rows}

\* the UPDATE with SET error_code = COALESCE($3, error_code): an update
\* without an error code leaves the one recorded
UpdateRows_KeepErrorCode(rows, statusUpdate) ==
    {IF r.TwilioSID = statusUpdate.MessageSid
     THEN [r EXCEPT !.Status = statusUpdate.Status,
                    !.ErrorCode = IF statusUpdate.ErrorCode # Nil
                                  THEN statusUpdate.ErrorCode ELSE @,
                    !.ErrorMsg = statusUpdate.ErrorMessage]
     ELSE r : r \in rows}

\* UpdateMessageStatus, the UPDATE ... WHERE twilio_sid = $1 applied to rows
UpdateRows(rows, statusUpdate) ==
    {IF r.TwilioSID = statusUpdate.MessageSid
     THEN [r EXCEPT !.Status = statusUpdate.Status,
                    !.ErrorCode = statusUpdate.ErrorCode,
                    !.ErrorMsg = statusUpdate.ErrorMessage]
     ELSE r : r \in rows}

\* UpdateMessageStatus without the check of RowsAffected
UpdateMessageStatus_NoRowCheck(rows, statusUpdate, dbOK) ==
    IF ~dbOK
    THEN [store |-> rows, err |-> "failed to update message status"]
    ELSE [store |-> UpdateRows(rows, statusUpdate), err |-> "nil"]

\* UpdateMessageStatus: the rows after the call and the error it returns
UpdateMessageStatus(rows, statusUpdate, dbOK) ==
    LET rowsAffected ==
            Cardinality({r \in rows : r.TwilioSID = statusUpdate.MessageSid})
    IN  IF ~dbOK
        THEN [store |-> rows, err |-> "failed to update message status"]
        ELSE IF rowsAffected = 0
        THEN [store |-> rows, err |-> "message not found for status update"]
        ELSE [store |-> UpdateRows(rows, statusUpdate), err |-> "nil"]

----------------------------------------------------------------------------
(* Requests the model sends *)

\* SmsStatus values of status webhooks
SmsStatuses == {S_queued, S_sent, S_delivered, S_read, S_failed}

\* ErrorCode / ErrorMessage values of status webhooks
ErrorFields ==
    {[ErrorCode |-> "", ErrorMessage |-> ""],
     [ErrorCode |-> "30008", ErrorMessage |-> "Unknown error"]}

\* SmsStatus values in other spellings, the empty string, and a provider
\* status the mapping does not list
S_DELIVERED == <<"D","E","L","I","V","E","R","E","D">>
S_Read == <<"R","e","a","d">>
S_Undelivered == <<"U","n","d","e","l","i","v","e","r","e","d">>
S_sending == <<"s","e","n","d","i","n","g">>

AllSmsStatuses ==
    SmsStatuses \cup
        {S_accepted, S_undelivered, S_DELIVERED, S_Read, S_Undelivered,
         <<>>, S_sending}

AllStatusWebhooks ==
    {[MessageSid |-> sid, SmsStatus |-> st,
      ErrorCode |-> e.ErrorCode, ErrorMessage |-> e.ErrorMessage] :
        sid \in Sids, st \in AllSmsStatuses, e \in ErrorFields}

StatusWebhooks ==
    {[MessageSid |-> sid, SmsStatus |-> st,
      ErrorCode |-> e.ErrorCode, ErrorMessage |-> e.ErrorMessage] :
        sid \in Sids, st \in SmsStatuses, e \in ErrorFields}

\* NumMedia / MediaUrl0 / MediaContentType0 values of message webhooks
MediaFields ==
    {[NumMedia |-> "0", MediaUrl0 |-> "", MediaContentType0 |-> <<>>],
     [NumMedia |-> "1", MediaUrl0 |-> "https://api.twilio.com/m0",
      MediaContentType0 |-> S_jpeg]}

\* content types of the media of message webhooks
S_mp4 == S_video \o <<"m","p","4">>
S_ogg == S_audio \o <<"o","g","g">>
S_zip == S_application \o <<"z","i","p">>
S_plain == <<"t","e","x","t","/","p","l","a","i","n">>
S_IMAGE_PNG == <<"I","M","A","G","E","/","P","N","G">>

ContentTypes == {S_jpeg, S_mp4, S_ogg, S_pdf, S_zip, S_plain, S_IMAGE_PNG, <<>>}

mediaUrl == "https://api.twilio.com/m0"

\* NumMedia / MediaUrl0 / MediaContentType0 in every combination the code
\* tells apart: a count of zero, a count that is no number, a missing url
AllMediaFields ==
    {[NumMedia |-> "0", MediaUrl0 |-> "", MediaContentType0 |-> <<>>],
     [NumMedia |-> "0", MediaUrl0 |-> mediaUrl, MediaContentType0 |-> S_jpeg],
     [NumMedia |-> "x", MediaUrl0 |-> mediaUrl, MediaContentType0 |-> S_jpeg],
     [NumMedia |-> "1", MediaUrl0 |-> "", MediaContentType0 |-> S_jpeg],
     [NumMedia |-> "2", MediaUrl0 |-> mediaUrl, MediaContentType0 |-> S_jpeg]}
    \cup
    {[NumMedia |-> "1", MediaUrl0 |-> mediaUrl, MediaContentType0 |-> ct] :
        ct \in ContentTypes}

\* message webhooks with and without a MessageSid
AllMessageWebhooks ==
    {[MessageSid |-> sid, From |-> "whatsapp:+551199990000", To |-> fromNumber,
      Body |-> "oi", NumMedia |-> m.NumMedia, MediaUrl0 |-> m.MediaUrl0,
      MediaContentType0 |-> m.MediaContentType0] :
        sid \in InboundSids \cup {""}, m \in AllMediaFields}

MessageWebhooks ==
    {[MessageSid |-> sid, From |-> "whatsapp:+551199990000", To |-> fromNumber,
      Body |-> "oi", NumMedia |-> m.NumMedia, MediaUrl0 |-> m.MediaUrl0,
      MediaContentType0 |-> m.MediaContentType0] :
        sid \in InboundSids, m \in MediaFields}

\* bodies of POST /api/v1/messages/send
SendRequests ==
    {[To |-> "+551199990000", Content |-> "ola", Type |-> ty,
      MediaURL |-> Nil, MediaType |-> Nil, Template |-> Nil] :
        ty \in {MessageTypeText, "", MessageTypeImage, MessageTypeLocation}}

\* bodies that send media and templates as well
AllSendRequests ==
    SendRequests \cup
    {[To |-> "+551199990000", Content |-> "ola", Type |-> MessageTypeImage,
      MediaURL |-> Ptr(mediaUrl), MediaType |-> Ptr(S_jpeg), Template |-> Nil],
     [To |-> "+551199990000", Content |-> "ola", Type |-> MessageTypeLocation,
      MediaURL |-> Nil, MediaType |-> Nil, Template |-> Ptr("HX1")],
     [To |-> "+551199990000", Content |-> "ola", Type |-> "template",
      MediaURL |-> Nil, MediaType |-> Nil, Template |-> Ptr("HX1")],
     [To |-> "whatsapp:+5511999999999", Content |-> "", Type |-> "",
      MediaURL |-> Nil, MediaType |-> Nil, Template |-> Ptr("HX1")]}

urlSend == "/api/v1/messages/send"

\* the identifiers the provider gives the messages it accepts
SendSids == OutboundSids \cup {"SM3"}

\* status callbacks for the messages sent, without an error code
SendStatusWebhooks ==
    {[MessageSid |-> sid, SmsStatus |-> st, ErrorCode |-> "", ErrorMessage |-> ""] :
        sid \in SendSids, st \in {S_delivered, S_failed}}

----------------------------------------------------------------------------
(* State *)

\* what a step did: op names the handler that answered (code is its HTTP
\* status) or the step a request is suspended after (code 0); msg is the
\* message the request carries or returns, upd the status update the step
\* applied to a row, src where GetMessage took the message it returns from, or
\* the send operation SendMessage called
Event(op, code, err, sid, msg) ==
    [op |-> op, code |-> code, err |-> err, sid |-> sid, msg |-> msg,
     upd |-> Nil, src |-> ""]

\* a request suspended between two steps
Request(kind, pc, id, msg) ==
    [kind |-> kind, pc |-> pc, id |-> id, msg |-> msg]

Init ==
    /\ store = {}
    /\ cache = [i \in Ids |-> Nil]
    /\ nextId = 0
    /\ inflight = {}
    /\ tasks = {}
    /\ issued = {}
    /\ ev = Event("start", 0, "nil", "", Nil)
    /\ secret = ""
    /\ rx = Nil
    /\ attempts = [k \in TaskKinds |-> [i \in Ids |-> <<>>]]

CanSuspend == Cardinality(inflight) < MaxInFlight

StatusOK == 200
StatusBadRequest == 400
StatusNotFound == 404
StatusInternalServerError == 500

----------------------------------------------------------------------------
(* internal/handlers/whatsapp.go: HandleStatus *)

\* POST /webhooks/whatsapp/status with a body that does not bind
HandleStatusBadRequest ==
    /\ ev' = Event("HandleStatus", StatusBadRequest, "Invalid webhook data", "", Nil)
    /\ UNCHANGED <<store, cache, nextId, inflight, tasks, issued>>

\* HandleStatus answering 500 when UpdateMessageStatus returns an error
HandleStatusCode_SurfaceError(err) ==
    IF err = "nil" THEN StatusOK ELSE StatusInternalServerError

\* the HTTP status HandleStatus answers with, given UpdateMessageStatus's error
HandleStatusCode(err) == StatusOK

\* POST /webhooks/whatsapp/status with a body that binds
HandleStatus(webhookData, dbOK) ==
    LET statusUpdate == ProcessStatusUpdate(webhookData)
        res == UpdateMessageStatus(store, statusUpdate, dbOK)
    IN  /\ store' = res.store
        /\ ev' = [Event("HandleStatus", HandleStatusCode(res.err), res.err,
                        webhookData.MessageSid, Nil)
                  EXCEPT !.upd = IF res.err = "nil" THEN Ptr(statusUpdate) ELSE Nil]
        /\ UNCHANGED <<cache, nextId, inflight, tasks, issued>>

----------------------------------------------------------------------------
(* internal/handlers/whatsapp.go: HandleMessage *)

\* HandleMessage going on after the 400, without the return: the zero
\* webhookData is processed and dispatched
HandleMessageBadRequest_NoReturn ==
    LET zero == [MessageSid |-> "", From |-> "", To |-> "", Body |-> "",
                 NumMedia |-> "", MediaUrl0 |-> "", MediaContentType0 |-> <<>>]
    IN  /\ nextId < MaxIds
        /\ tasks' = tasks \cup
               {[kind |-> "forwardToOrchestrator",
                 message |-> ProcessIncomingMessage(zero, nextId + 1)]}
        /\ ev' = Event("HandleMessage", StatusBadRequest, "Invalid webhook data",
                       "", Nil)
        /\ UNCHANGED <<store, cache, nextId, inflight, issued>>

\* POST /webhooks/whatsapp/messages with a body that does not bind
HandleMessageBadRequest ==
    /\ ev' = Event("HandleMessage", StatusBadRequest, "Invalid webhook data", "", Nil)
    /\ UNCHANGED <<store, cache, nextId, inflight, tasks, issued>>

\* HandleMessage starting processMediaAsync without looking at MediaURL
Dispatch_AlwaysMedia(message) ==
    {[kind |-> "forwardToOrchestrator", message |-> message],
     [kind |-> "processMediaAsync", message |-> message]}

\* the goroutines HandleMessage starts for message
Dispatch(message) ==
    {[kind |-> "forwardToOrchestrator", message |-> message]}
    \cup (IF message.MediaURL # Nil
          THEN {[kind |-> "processMediaAsync", message |-> message]}
          ELSE {})

\* HandleMessage answering 500 when StoreMessage returns an error
HandleMessageCode_SurfaceError(err) ==
    IF err = "nil" THEN StatusOK ELSE StatusInternalServerError

\* the HTTP status HandleMessage answers with, given StoreMessage's error
HandleMessageCode(err) == StatusOK

\* HandleMessage with a StoreMessage that writes the cache before it looks at
\* the error of the INSERT
HandleMessage_CacheFirst(webhookData, dbOK) ==
    LET message == ProcessIncomingMessage(webhookData, nextId + 1)
        res == StoreInsert(store, message, dbOK)
    IN  /\ nextId < MaxIds
        /\ nextId' = nextId + 1
        /\ store' = res.store
        /\ cache' = CacheSet(cache, message, TRUE)
        /\ tasks' = tasks \cup Dispatch(message)
        /\ ev' = Event("HandleMessage", HandleMessageCode(res.err), res.err,
                       message.TwilioSID, Ptr(message))
        /\ UNCHANGED <<inflight, issued>>

\* POST /webhooks/whatsapp/messages with a body that binds, up to the INSERT
\* of StoreMessage; when the INSERT fails StoreMessage returns and the handler
\* runs to its end
HandleMessage(webhookData, dbOK) ==
    LET message == ProcessIncomingMessage(webhookData, nextId + 1)
        res == StoreInsert(store, message, dbOK)
    IN  /\ nextId < MaxIds
        /\ nextId' = nextId + 1
        /\ store' = res.store
        /\ IF res.err = "nil"
           THEN /\ CanSuspend
                /\ inflight' = inflight \cup
                       {Request("HandleMessage", "cache", message.ID, Ptr(message))}
                /\ ev' = Event("StoreMessage.insert", 0, "nil",
                               message.TwilioSID, Ptr(message))
                /\ UNCHANGED tasks
           ELSE /\ tasks' = tasks \cup Dispatch(message)
                /\ ev' = Event("HandleMessage", HandleMessageCode(res.err), res.err,
                               message.TwilioSID, Ptr(message))
                /\ UNCHANGED inflight
        /\ UNCHANGED <<cache, issued>>

\* HandleMessage from the Redis SET of StoreMessage to the response
HandleMessageCache(req, cacheOK) ==
    LET message == Deref(req.msg) IN
    /\ req.kind = "HandleMessage" /\ req.pc = "cache"
    /\ cache' = CacheSet(cache, message, cacheOK)
    /\ tasks' = tasks \cup Dispatch(message)
    /\ inflight' = inflight \ {req}
    /\ ev' = Event("HandleMessage", HandleMessageCode("nil"),
                   IF cacheOK THEN "nil" ELSE "failed to cache message",
                   message.TwilioSID, Ptr(message))
    /\ UNCHANGED <<store, nextId, issued>>

\* HandleMessage from the Redis SET of StoreMessage to its two go statements;
\* the response is still to be produced
HandleMessageSpawn(req, cacheOK) ==
    LET message == Deref(req.msg) IN
    /\ req.kind = "HandleMessage" /\ req.pc = "cache"
    /\ cache' = CacheSet(cache, message, cacheOK)
    /\ tasks' = tasks \cup Dispatch(message)
    /\ inflight' = (inflight \ {req}) \cup
           {Request("HandleMessage", "respond", req.id, req.msg)}
    /\ ev' = Event("go", 0, IF cacheOK THEN "nil" ELSE "failed to cache message",
                   message.TwilioSID, req.msg)
    /\ UNCHANGED <<store, nextId, issued>>

\* HandleMessage answering at the go statements, the goroutines started
\* again when the response is produced
HandleMessageRespond_Spawns(req) ==
    LET message == Deref(req.msg) IN
    /\ req.kind = "HandleMessage" /\ req.pc = "respond"
    /\ tasks' = tasks \cup Dispatch(message)
    /\ inflight' = inflight \ {req}
    /\ ev' = Event("HandleMessage", HandleMessageCode("nil"), "nil",
                   message.TwilioSID, req.msg)
    /\ UNCHANGED <<store, cache, nextId, issued>>

\* HandleMessage after its go statements: c.Status(http.StatusOK) and the
\* return
HandleMessageRespond(req) ==
    LET message == Deref(req.msg) IN
    /\ req.kind = "HandleMessage" /\ req.pc = "respond"
    /\ inflight' = inflight \ {req}
    /\ ev' = Event("HandleMessage", HandleMessageCode("nil"), "nil",
                   message.TwilioSID, req.msg)
    /\ UNCHANGED <<store, cache, nextId, tasks, issued>>

----------------------------------------------------------------------------
(* internal/services/media.go and the goroutines of HandleMessage *)

\* ProcessMedia: the processor the switch on the prefix of *message.MediaType
\* calls ("skip" for the default branch) and the error returned; the four
\* processors log and return nil
ProcessMedia(message) ==
    IF message.MediaURL = Nil
    THEN [processor |-> "", err |-> "no media URL provided"]
    ELSE LET mediaType == Deref(message.MediaType) IN
         [processor |->
              CASE HasPrefix(mediaType, S_image) -> "processImage"
                [] HasPrefix(mediaType, S_video) -> "processVideo"
                [] HasPrefix(mediaType, S_audio) -> "processAudio"
                [] HasPrefix(mediaType, S_pdf) -> "processDocument"
                [] OTHER -> "skip",
          err |-> "nil"]

\* attempts after one more run of the task of kind for message id
Attempted(kind, id, err) ==
    [attempts EXCEPT ![kind][id] = Append(@, err)]

\* the goroutine processMediaAsync(message) running to its end: it returns at
\* once without a media URL, logs the error of ProcessMedia otherwise
processMediaAsync(t) ==
    LET res == IF t.message.MediaURL = Nil
               THEN [processor |-> "return", err |-> "nil"]
               ELSE ProcessMedia(t.message)
    IN  /\ t \in tasks /\ t.kind = "processMediaAsync"
        /\ tasks' = tasks \ {t}
        /\ attempts' = Attempted(t.kind, t.message.ID, res.err)
        /\ ev' = [Event(t.kind, 0, res.err, t.message.TwilioSID, Ptr(t.message))
                      EXCEPT !.src = res.processor]
        /\ UNCHANGED <<store, cache, nextId, inflight, issued>>

\* errors of AIService.ForwardToOrchestrator that depend on the orchestrator:
\* the POST fails or times out after 30 s, the status is not 200 (a body that
\* does not decode ends the same way, with an error that is logged)
OrchestratorErrors ==
    {"nil", "failed to send request", "orchestrator returned status"}

\* forwardToOrchestrator calling ForwardToOrchestrator again when it fails
forwardToOrchestrator_Retry(t, err) ==
    /\ t \in tasks /\ t.kind = "forwardToOrchestrator"
    /\ tasks' = IF err = "nil" THEN tasks \ {t} ELSE tasks
    /\ attempts' = Attempted(t.kind, t.message.ID, err)
    /\ ev' = Event(t.kind, 0, err, t.message.TwilioSID, Ptr(t.message))
    /\ UNCHANGED <<store, cache, nextId, inflight, issued>>

\* forwardToOrchestrator ending the media goroutine of its message when the
\* orchestrator call fails
forwardToOrchestrator_CancelsMedia(t, err) ==
    /\ t \in tasks /\ t.kind = "forwardToOrchestrator"
    /\ tasks' = IF err = "nil" THEN tasks \ {t}
                ELSE {u \in tasks : u.message.ID # t.message.ID}
    /\ attempts' = Attempted(t.kind, t.message.ID, err)
    /\ ev' = Event(t.kind, 0, err, t.message.TwilioSID, Ptr(t.message))
    /\ UNCHANGED <<store, cache, nextId, inflight, issued>>

\* the goroutine forwardToOrchestrator(message) running to its end: one call
\* of ForwardToOrchestrator, whose error is logged
forwardToOrchestrator(t, err) ==
    /\ t \in tasks /\ t.kind = "forwardToOrchestrator"
    /\ tasks' = tasks \ {t}
    /\ attempts' = Attempted(t.kind, t.message.ID, err)
    /\ ev' = Event(t.kind, 0, err, t.message.TwilioSID, Ptr(t.message))
    /\ UNCHANGED <<store, cache, nextId, inflight, issued>>

----------------------------------------------------------------------------
(* internal/handlers/whatsapp.go: SendMessage *)

\* the send operation SendMessage's switch on request.Type selects, or
\* "reject" where it answers 400 without sending
SendOperation(request) ==
    CASE request.Type \in {MessageTypeText, ""} -> "SendTextMessage"
      [] request.Type \in {MessageTypeImage, MessageTypeVideo,
                           MessageTypeAudio, MessageTypeDocument} ->
             IF request.MediaURL = Nil THEN "reject" ELSE "SendMediaMessage"
      [] OTHER ->
             IF request.Template # Nil THEN "SendTemplateMessage" ELSE "reject"

\* the outbound WhatsAppMessage stored as pending instead of response.Status
OutboundMessage_Pending(request, id, sid) ==
    [ID |-> id,
     TwilioSID |-> sid,
     From |-> fromNumber,
     To |-> request.To,
     Direction |-> MessageDirectionOutbound,
     Type |-> request.Type,
     Status |-> MessageStatusPending,
     Content |-> request.Content,
     MediaURL |-> request.MediaURL,
     MediaType |-> request.MediaType,
     ErrorCode |-> Nil,
     ErrorMsg |-> Nil]

\* the outbound WhatsAppMessage SendMessage stores: id is the value uuid.New()
\* returned in Send*Message, sid the provider's identifier of the message
OutboundMessage(request, id, sid) ==
    [ID |-> id,
     TwilioSID |-> sid,
     From |-> fromNumber,
     To |-> request.To,
     Direction |-> MessageDirectionOutbound,
     Type |-> request.Type,
     Status |-> MessageStatusSent,
     Content |-> request.Content,
     MediaURL |-> request.MediaURL,
     MediaType |-> request.MediaType,
     ErrorCode |-> Nil,
     ErrorMsg |-> Nil]

\* POST /api/v1/messages/send with a body that binds, whose type the switch
\* rejects
SendMessageReject(request) ==
    /\ SendOperation(request) = "reject"
    /\ ev' = Event("SendMessage", StatusBadRequest, "rejected", "", Nil)
    /\ UNCHANGED <<store, cache, nextId, inflight, tasks, issued>>

\* SendMessage recording the attempt the provider refused as a failed message
SendMessageFailed_Recorded(request) ==
    /\ SendOperation(request) # "reject"
    /\ nextId < MaxIds
    /\ store' = store \cup
           {[OutboundMessage(request, nextId + 1, "") EXCEPT
                 !.Status = MessageStatusFailed]}
    /\ ev' = Event("SendMessage", StatusInternalServerError,
                   "failed to send message", "", Nil)
    /\ UNCHANGED <<cache, nextId, inflight, tasks, issued>>

\* SendMessage up to the provider's refusal of the message
SendMessageFailed(request) ==
    /\ SendOperation(request) # "reject"
    /\ ev' = Event("SendMessage", StatusInternalServerError,
                   "failed to send message", "", Nil)
    /\ UNCHANGED <<store, cache, nextId, inflight, tasks, issued>>

\* SendMessage up to the provider's acceptance of the message under sid
SendMessage(request, sid) ==
    LET message == OutboundMessage(request, nextId + 1, sid) IN
    /\ SendOperation(request) # "reject"
    /\ sid \notin issued
    /\ nextId < MaxIds
    /\ CanSuspend
    /\ nextId' = nextId + 1
    /\ issued' = issued \cup {sid}
    /\ inflight' = inflight \cup
           {Request("SendMessage", "store", message.ID, Ptr(message))}
    /\ ev' = [Event("CreateMessage", 0, "nil", sid, Ptr(message))
              EXCEPT !.src = SendOperation(request)]
    /\ UNCHANGED <<store, cache, tasks>>

\* SendMessage answering 500 when StoreMessage returns an error
SendMessageCode_SurfaceError(err) ==
    IF err = "nil" THEN StatusOK ELSE StatusInternalServerError

\* the HTTP status SendMessage answers with after the provider accepted the
\* message, given StoreMessage's error
SendMessageCode(err) == StatusOK

\* SendMessage from the provider's answer to the INSERT of StoreMessage; when
\* the INSERT fails StoreMessage returns and the handler runs to its end
SendMessageStore(req, dbOK) ==
    LET message == Deref(req.msg)
        res == StoreInsert(store, message, dbOK)
    IN  /\ req.kind = "SendMessage" /\ req.pc = "store"
        /\ store' = res.store
        /\ IF res.err = "nil"
           THEN /\ inflight' = (inflight \ {req}) \cup
                       {Request("SendMessage", "cache", req.id, req.msg)}
                /\ ev' = Event("StoreMessage.insert", 0, "nil",
                               message.TwilioSID, req.msg)
           ELSE /\ inflight' = inflight \ {req}
                /\ ev' = Event("SendMessage", SendMessageCode(res.err), res.err,
                               message.TwilioSID, req.msg)
        /\ UNCHANGED <<cache, nextId, tasks, issued>>

\* SendMessage from the Redis SET of StoreMessage to the response
SendMessageCache(req, cacheOK) ==
    LET message == Deref(req.msg) IN
    /\ req.kind = "SendMessage" /\ req.pc = "cache"
    /\ cache' = CacheSet(cache, message, cacheOK)
    /\ inflight' = inflight \ {req}
    /\ ev' = Event("SendMessage", SendMessageCode("nil"),
                   IF cacheOK THEN "nil" ELSE "failed to cache message",
                   message.TwilioSID, req.msg)
    /\ UNCHANGED <<store, nextId, tasks, issued>>

----------------------------------------------------------------------------
(* internal/handlers/whatsapp.go and services/message.go: GetMessage *)

\* GET /api/v1/messages/:messageId where messageId does not parse as a UUID
GetMessageInvalid ==
    /\ ev' = Event("GetMessage", StatusNotFound, "invalid message ID format", "", Nil)
    /\ UNCHANGED <<store, cache, nextId, inflight, tasks, issued>>

\* GetMessage up to the Redis GET: a hit answers, a miss (or a Redis error)
\* goes on to the database
GetMessage(id, cacheOK) ==
    /\ IF cacheOK /\ cache[id] # Nil
       THEN /\ ev' = [Event("GetMessage", StatusOK, "nil", "", cache[id])
                       EXCEPT !.src = "cache"]
            /\ UNCHANGED inflight
       ELSE /\ CanSuspend
            /\ inflight' = inflight \cup {Request("GetMessage", "query", id, Nil)}
            /\ ev' = Event("redis.Get", 0, "miss", "", Nil)
    /\ UNCHANGED <<store, cache, nextId, tasks, issued>>

\* the errors GetMessage returns when row.Scan fails: with no row the driver
\* returns its own no-rows error, which the comparison err == sql.ErrNoRows
\* matches or not depending on the driver
GetMessageErrors(dbOK) ==
    IF dbOK
    THEN {"message not found", "failed to retrieve message"}
    ELSE {"failed to retrieve message"}

\* GetMessage from the SELECT ... WHERE id = $1 on
GetMessageQuery(req, dbOK) ==
    LET found == {r \in store : r.ID = req.id} IN
    /\ req.kind = "GetMessage" /\ req.pc = "query"
    /\ IF dbOK /\ found # {}
       THEN /\ inflight' = (inflight \ {req}) \cup
                   {Request("GetMessage", "cache", req.id,
                            Ptr(CHOOSE r \in found : TRUE))}
            /\ ev' = Event("QueryRow", 0, "nil", "", Nil)
       ELSE /\ inflight' = inflight \ {req}
            /\ \E err \in GetMessageErrors(dbOK) :
                   ev' = Event("GetMessage", StatusNotFound, err, "", Nil)
    /\ UNCHANGED <<store, cache, nextId, tasks, issued>>

\* GetMessage returning the error of the Redis SET of the row read
GetMessageCache_FatalCache(req, cacheOK) ==
    /\ req.kind = "GetMessage" /\ req.pc = "cache"
    /\ cache' = CacheSet(cache, Deref(req.msg), cacheOK)
    /\ inflight' = inflight \ {req}
    /\ ev' = IF cacheOK
             THEN [Event("GetMessage", StatusOK, "nil", "", req.msg)
                      EXCEPT !.src = "store"]
             ELSE Event("GetMessage", StatusNotFound, "failed to cache message",
                        "", Nil)
    /\ UNCHANGED <<store, nextId, tasks, issued>>

\* GetMessage answering without the Redis SET of the row read
GetMessageCache_NoPopulate(req, cacheOK) ==
    /\ req.kind = "GetMessage" /\ req.pc = "cache"
    /\ inflight' = inflight \ {req}
    /\ ev' = [Event("GetMessage", StatusOK,
                    IF cacheOK THEN "nil" ELSE "failed to cache message",
                    "", req.msg)
              EXCEPT !.src = "store"]
    /\ UNCHANGED <<store, cache, nextId, tasks, issued>>

\* GetMessage from the Redis SET of the row read to the response
GetMessageCache(req, cacheOK) ==
    /\ req.kind = "GetMessage" /\ req.pc = "cache"
    /\ cache' = CacheSet(cache, Deref(req.msg), cacheOK)
    /\ inflight' = inflight \ {req}
    /\ ev' = [Event("GetMessage", StatusOK,
                    IF cacheOK THEN "nil" ELSE "failed to cache message",
                    "", req.msg)
              EXCEPT !.src = "store"]
    /\ UNCHANGED <<store, nextId, tasks, issued>>

\* Redis drops the key message:<id> when its time-to-live of 24 hours is over
CacheExpire(id) ==
    /\ cache[id] # Nil
    /\ cache' = [cache EXCEPT ![id] = Nil]
    /\ ev' = Event("expire", 0, "nil", "", Nil)
    /\ UNCHANGED <<store, nextId, inflight, tasks, issued>>

----------------------------------------------------------------------------

Next ==
    \/ HandleStatusBadRequest /\ UNCHANGED <<authVars, attempts>>
    \/ HandleMessageBadRequest /\ UNCHANGED <<authVars, attempts>>
    \/ \E w \in StatusWebhooks, dbOK \in BOOLEAN : HandleStatus(w, dbOK) /\ UNCHANGED <<authVars, attempts>>
    \/ \E w \in MessageWebhooks, dbOK \in BOOLEAN : HandleMessage(w, dbOK) /\ UNCHANGED <<authVars, attempts>>
    \/ \E req \in inflight, cacheOK \in BOOLEAN : HandleMessageCache(req, cacheOK) /\ UNCHANGED <<authVars, attempts>>
    \/ \E request \in SendRequests : SendMessageReject(request) /\ UNCHANGED <<authVars, attempts>>
    \/ \E request \in SendRequests : SendMessageFailed(request) /\ UNCHANGED <<authVars, attempts>>
    \/ \E request \in SendRequests, sid \in OutboundSids : SendMessage(request, sid) /\ UNCHANGED <<authVars, attempts>>
    \/ \E req \in inflight, dbOK \in BOOLEAN : SendMessageStore(req, dbOK) /\ UNCHANGED <<authVars, attempts>>
    \/ \E req \in inflight, cacheOK \in BOOLEAN : SendMessageCache(req, cacheOK) /\ UNCHANGED <<authVars, attempts>>

\* the write paths: the two webhooks and the send API
Spec == Init /\ [][Next]_vars

\* the webhooks the read-path specification sends: text messages, and status
\* callbacks for them that report sent or read without an error
ReadMessageWebhooks == {w \in MessageWebhooks : w.NumMedia = "0"}
ReadStatusWebhooks ==
    {w \in StatusWebhooks :
        /\ w.MessageSid \in InboundSids
        /\ w.SmsStatus \in {S_sent, S_read}
        /\ w.ErrorCode = ""}

NextRead ==
    \/ \E w \in ReadStatusWebhooks, dbOK \in BOOLEAN : HandleStatus(w, dbOK) /\ UNCHANGED <<authVars, attempts>>
    \/ \E w \in ReadMessageWebhooks, dbOK \in BOOLEAN : HandleMessage(w, dbOK) /\ UNCHANGED <<authVars, attempts>>
    \/ \E req \in inflight, cacheOK \in BOOLEAN : HandleMessageCache(req, cacheOK) /\ UNCHANGED <<authVars, attempts>>
    \/ GetMessageInvalid /\ UNCHANGED <<authVars, attempts>>
    \/ \E id \in Ids, cacheOK \in BOOLEAN : GetMessage(id, cacheOK) /\ UNCHANGED <<authVars, attempts>>
    \/ \E req \in inflight, dbOK \in BOOLEAN : GetMessageQuery(req, dbOK) /\ UNCHANGED <<authVars, attempts>>
    \/ \E req \in inflight, cacheOK \in BOOLEAN : GetMessageCache(req, cacheOK) /\ UNCHANGED <<authVars, attempts>>
    \/ \E id \in Ids : CacheExpire(id) /\ UNCHANGED <<authVars, attempts>>

\* the read path: GetMessage against the message webhook and status callbacks
SpecRead == Init /\ [][NextRead]_vars

----------------------------------------------------------------------------
(* internal/middleware/auth.go: the middleware of the two webhook routes *)

StatusUnauthorized == 401

\* cfg.WhatsAppWebhookSecret: none configured, or the secret shared with the
\* provider
Secrets == {"", "whsec"}

urlMessages == "/webhooks/whatsapp/messages"
urlStatus == "/webhooks/whatsapp/status"

\* hex(HMAC-SHA256(key, data)): distinct for distinct keys or data
HmacSha256(key, data) == <<key, data>>

\* the X-Twilio-Signature headers a request for url arrives with: none (the
\* empty string GetHeader returns), the signature made with the shared secret,
\* one made with another key
Signatures(url) ==
    {<<>>, HmacSha256("whsec", <<url, "">>), HmacSha256("guess", <<url, "">>)}

\* a webhook request as the middleware sees it
Received(signature, url, form) ==
    Ptr([url |-> url, signature |-> signature, form |-> form])

\* verifySignature (the request bodies of the model do not enter the digest)
verifySignature(signature, key, body, url) ==
    signature = HmacSha256(key, <<url, body>>)

\* the middleware calling c.Next() for every request
WhatsAppSignatureVerification_Skip(signature, url) == TRUE

\* the middleware without its development mode: the header is required with
\* and without a secret
WhatsAppSignatureVerification_AlwaysRequired(signature, url) ==
    signature # <<>>

\* WhatsAppSignatureVerification: whether the middleware calls c.Next()
WhatsAppSignatureVerification(signature, url) ==
    secret = "" \/ signature # <<>>

\* a webhook the middleware aborts with 401 "Missing signature"
Unauthorized(signature, url) ==
    /\ ~WhatsAppSignatureVerification(signature, url)
    /\ ev' = Event("WhatsAppSignatureVerification", StatusUnauthorized,
                   "Missing signature", "", Nil)
    /\ rx' = Received(signature, url, Nil)
    /\ UNCHANGED <<store, cache, nextId, inflight, tasks, issued, secret, attempts>>

\* POST /webhooks/whatsapp/status through the middleware
VerifiedHandleStatus(signature, webhookData, dbOK) ==
    /\ WhatsAppSignatureVerification(signature, urlStatus)
    /\ HandleStatus(webhookData, dbOK)
    /\ rx' = Received(signature, urlStatus, webhookData)
    /\ UNCHANGED <<secret, attempts>>

\* POST /webhooks/whatsapp/messages through the middleware
VerifiedHandleMessage(signature, webhookData, dbOK) ==
    /\ WhatsAppSignatureVerification(signature, urlMessages)
    /\ HandleMessage(webhookData, dbOK)
    /\ rx' = Received(signature, urlMessages, webhookData)
    /\ UNCHANGED <<secret, attempts>>

urlVerify == "/webhooks/whatsapp/verify"

\* the query parameters hub.mode, hub.challenge and hub.verify_token of
\* GET /webhooks/whatsapp/verify; c.Query gives "" for a missing parameter
VerifyQueries ==
    {[mode |-> mode, challenge |-> challenge, verify_token |-> token] :
        mode \in {"subscribe", "unsubscribe", ""},
        challenge \in {"", "1158201444"},
        token \in {"", "tok"}}

\* VerifyWebhook accepting every request whose mode is subscribe
VerifyWebhookCode_AnyChallenge(mode, challenge) ==
    IF mode = "subscribe" THEN StatusOK ELSE StatusBadRequest

\* the HTTP status VerifyWebhook answers with
VerifyWebhookCode(mode, challenge) ==
    IF mode = "subscribe" /\ challenge # "" THEN StatusOK ELSE StatusBadRequest

\* GET /webhooks/whatsapp/verify: the route has no signature middleware; msg
\* is the body of the response, the challenge
VerifyWebhook(query) ==
    LET code == VerifyWebhookCode(query.mode, query.challenge) IN
    /\ ev' = Event("VerifyWebhook", code, "nil", "",
                   IF code = StatusOK THEN Ptr(query.challenge) ELSE Nil)
    /\ rx' = Received(<<>>, urlVerify, query)
    /\ UNCHANGED <<store, cache, nextId, inflight, tasks, issued, secret, attempts>>

\* the service started with or without a webhook secret
InitAuth ==
    /\ store = {}
    /\ cache = [i \in Ids |-> Nil]
    /\ nextId = 0
    /\ inflight = {}
    /\ tasks = {}
    /\ issued = {}
    /\ ev = Event("start", 0, "nil", "", Nil)
    /\ secret \in Secrets
    /\ rx = Nil
    /\ attempts = [k \in TaskKinds |-> [i \in Ids |-> <<>>]]

NextAuth ==
    \/ \E url \in {urlMessages, urlStatus} : \E signature \in Signatures(url) :
           Unauthorized(signature, url)
    \/ \E signature \in Signatures(urlStatus), w \in ReadStatusWebhooks,
          dbOK \in BOOLEAN : VerifiedHandleStatus(signature, w, dbOK)
    \/ \E signature \in Signatures(urlMessages), w \in MessageWebhooks,
          dbOK \in BOOLEAN : VerifiedHandleMessage(signature, w, dbOK)
    \/ \E req \in inflight, cacheOK \in BOOLEAN :
           HandleMessageCache(req, cacheOK) /\ rx' = Nil /\ UNCHANGED <<secret, attempts>>
    \/ \E query \in VerifyQueries : VerifyWebhook(query)

\* the routes of the webhook group: verification, and the two webhooks behind
\* the signature middleware
SpecAuth == InitAuth /\ [][NextAuth]_vars

NextStatus ==
    \/ \E w \in AllStatusWebhooks, dbOK \in BOOLEAN :
           VerifiedHandleStatus(<<>>, w, dbOK)
    \/ \E w \in ReadMessageWebhooks, dbOK \in BOOLEAN :
           VerifiedHandleMessage(<<>>, w, dbOK)
    \/ \E req \in inflight, cacheOK \in BOOLEAN :
           HandleMessageCache(req, cacheOK) /\ rx' = Nil /\ UNCHANGED <<secret, attempts>>

\* status callbacks in every spelling against stored text messages, no webhook
\* secret configured
SpecStatus == Init /\ [][NextStatus]_vars

NextInbound ==
    \/ \E w \in AllMessageWebhooks, dbOK \in BOOLEAN :
           VerifiedHandleMessage(<<>>, w, dbOK)
    \/ \E req \in inflight, cacheOK \in BOOLEAN :
           HandleMessageCache(req, cacheOK) /\ rx' = Nil /\ UNCHANGED <<secret, attempts>>

\* message webhooks with media of every kind, no webhook secret configured
SpecInbound == Init /\ [][NextInbound]_vars

NextSend ==
    \/ \E request \in AllSendRequests :
           /\ SendMessageReject(request)
           /\ rx' = Received(<<>>, urlSend, request) /\ UNCHANGED <<secret, attempts>>
    \/ \E request \in AllSendRequests :
           /\ SendMessageFailed(request)
           /\ rx' = Received(<<>>, urlSend, request) /\ UNCHANGED <<secret, attempts>>
    \/ \E request \in AllSendRequests, sid \in SendSids :
           /\ SendMessage(request, sid)
           /\ rx' = Received(<<>>, urlSend, request) /\ UNCHANGED <<secret, attempts>>
    \/ \E req \in inflight, dbOK \in BOOLEAN :
           SendMessageStore(req, dbOK) /\ rx' = Nil /\ UNCHANGED <<secret, attempts>>
    \/ \E req \in inflight, cacheOK \in BOOLEAN :
           SendMessageCache(req, cacheOK) /\ rx' = Nil /\ UNCHANGED <<secret, attempts>>
    \/ \E w \in SendStatusWebhooks, dbOK \in BOOLEAN :
           VerifiedHandleStatus(<<>>, w, dbOK)

\* the send API with text, media and template messages, and the status
\* callbacks of the messages sent
SpecSend == Init /\ [][NextSend]_vars

\* message webhooks without media and with media of each class
TaskMessageWebhooks ==
    {[MessageSid |-> sid, From |-> "whatsapp:+551199990000", To |-> fromNumber,
      Body |-> "oi", NumMedia |-> "0", MediaUrl0 |-> "",
      MediaContentType0 |-> <<>>] : sid \in InboundSids}
    \cup
    {[MessageSid |-> sid, From |-> "whatsapp:+551199990000", To |-> fromNumber,
      Body |-> "oi", NumMedia |-> "1", MediaUrl0 |-> mediaUrl,
      MediaContentType0 |-> ct] :
        sid \in InboundSids,
        ct \in {S_jpeg, S_mp4, S_ogg, S_pdf, S_zip, S_plain}}

NextTasks ==
    \/ \E w \in TaskMessageWebhooks :
           VerifiedHandleMessage(<<>>, w, TRUE)
    \/ \E req \in inflight, cacheOK \in BOOLEAN :
           HandleMessageSpawn(req, cacheOK) /\ rx' = Nil /\ UNCHANGED <<secret, attempts>>
    \/ \E req \in inflight :
           HandleMessageRespond(req) /\ rx' = Nil /\ UNCHANGED <<secret, attempts>>
    \/ \E t \in tasks :
           processMediaAsync(t) /\ rx' = Nil /\ UNCHANGED secret
    \/ \E t \in tasks, err \in OrchestratorErrors :
           forwardToOrchestrator(t, err) /\ rx' = Nil /\ UNCHANGED secret

\* message webhooks and the goroutines HandleMessage starts for them, the
\* handler cut at its go statements, no webhook secret configured
SpecTasks == Init /\ [][NextTasks]_vars

\* the characters of the destination addresses of the model
NumberChars == {"+", "1", " ", "-", "(", ")"}

RECURSIVE Strings(_)
\* the strings of at most n characters
Strings(n) ==
    IF n = 0 THEN {<<>>}
    ELSE LET shorter == Strings(n - 1)
         IN  shorter \cup {Append(str, ch) : str \in shorter, ch \in NumberChars}

\* the "to" of send requests: numbers as users write them, the same behind
\* the scheme, and spellings close to the scheme
PhoneNumbers ==
    Strings(MaxNumberLen)
    \cup {S_whatsapp \o str : str \in Strings(MaxNumberLen)}
    \cup {SubSeq(S_whatsapp, 1, 8) \o <<"+", "1">>,
          <<"W">> \o SubSeq(S_whatsapp, 2, 9) \o <<"+", "1">>,
          <<" ">> \o S_whatsapp \o <<"+", "1">>,
          <<"+">> \o S_whatsapp \o <<"1">>}

\* text send requests to the destination addresses of the model
FormatRequests ==
    {[To |-> to, Content |-> "ola", Type |-> MessageTypeText,
      MediaURL |-> Nil, MediaType |-> Nil, Template |-> Nil] :
        to \in PhoneNumbers}

\* SendTextMessage up to params.SetTo / SetFrom / SetBody: msg is the
\* CreateMessageParams handed to the provider
SendTextMessage ==
    /\ rx # Nil
    /\ Deref(rx).url = urlSend
    /\ ev.op = "start"
    /\ ev' = Event("CreateMessageParams", 0, "nil", "",
                   Ptr([To |-> formatWhatsAppNumber(Deref(rx).form.To),
                        From |-> fromNumber,
                        Body |-> Deref(rx).form.Content]))
    /\ UNCHANGED <<store, cache, nextId, inflight, tasks, issued, secret, rx,
                   attempts>>

\* the service with a text send request received
InitFormat ==
    /\ store = {}
    /\ cache = [i \in Ids |-> Nil]
    /\ nextId = 0
    /\ inflight = {}
    /\ tasks = {}
    /\ issued = {}
    /\ ev = Event("start", 0, "nil", "", Nil)
    /\ secret = ""
    /\ rx \in {Received(<<>>, urlSend, request) : request \in FormatRequests}
    /\ attempts = [k \in TaskKinds |-> [i \in Ids |-> <<>>]]

NextFormat == SendTextMessage

\* the normalization of the destination address of a text send request
SpecFormat == InitFormat /\ [][NextFormat]_vars

----------------------------------------------------------------------------
(* Properties *)

TerminalStatuses == {MessageStatusRead, MessageStatusFailed}

\* position of a status in the order pending, sent, delivered, read
Ordinal(status) ==
    CASE status = MessageStatusPending -> 0
      [] status = MessageStatusSent -> 1
      [] status = MessageStatusDelivered -> 2
      [] status = MessageStatusRead -> 3
      [] OTHER -> 4

\* the step handled a status callback reporting status for sid, without an
\* error code, and the callback matched a row
Applied(e, sid, status) ==
    /\ e.op = "HandleStatus"
    /\ e.upd # Nil
    /\ Deref(e.upd).MessageSid = sid
    /\ Deref(e.upd).Status = status
    /\ Deref(e.upd).ErrorCode = Nil

\* C1: once the stored status of a message is read or failed, no step changes
\* the stored status of that message.
C1_TerminalNeverOverturned ==
    [][\A r \in store, r2 \in store' :
           (r.TwilioSID = r2.TwilioSID /\ r.Status \in TerminalStatuses)
               => r2.Status = r.Status]_vars

\* C2: when the callbacks sent and delivered (no error code) for one stored
\* message are handled one after the other, in either order, the stored status
\* after the second is delivered.  Concurrent HandleStatus requests each run one
\* UPDATE statement, so they take effect in one of the two orders.
C2_SentDeliveredAnyOrder ==
    [][\A sid \in Sids :
           (\/ Applied(ev, sid, MessageStatusSent)
               /\ Applied(ev', sid, MessageStatusDelivered)
            \/ Applied(ev, sid, MessageStatusDelivered)
               /\ Applied(ev', sid, MessageStatusSent))
               => \A r \in store' :
                      r.TwilioSID = sid => r.Status = MessageStatusDelivered]_vars

\* C3: every change of a stored status moves forward in the order pending,
\* sent, delivered, read, or to failed; in particular a callback whose status is
\* behind the stored one changes nothing.
C3_StatusMovesForward ==
    [][\A r \in store, r2 \in store' :
           (r.TwilioSID = r2.TwilioSID /\ r2.Status # r.Status)
               => \/ r2.Status = MessageStatusFailed
                  \/ /\ r.Status # MessageStatusFailed
                     /\ Ordinal(r.Status) < Ordinal(r2.Status)]_vars

\* the columns a status callback writes
StatusColumns(rows) ==
    {[TwilioSID |-> r.TwilioSID, Status |-> r.Status,
      ErrorCode |-> r.ErrorCode, ErrorMsg |-> r.ErrorMsg] : r \in rows}

\* C4: in the state a status callback that matched a row has just left, handling
\* the same callback once more leaves status, error code and error message of
\* every row as they are.
C4_StatusUpdateIdempotent ==
    \A w \in StatusWebhooks :
        (ev.op = "HandleStatus" /\ ev.upd = Ptr(ProcessStatusUpdate(w)))
            => LET again == UpdateMessageStatus(store, ProcessStatusUpdate(w), TRUE)
               IN  /\ again.err = "nil"
                   /\ StatusColumns(again.store) = StatusColumns(store)

\* C4 witness: a callback carrying an error code has been applied to a row
C4_Witness ==
    /\ ev.op = "HandleStatus"
    /\ ev.upd # Nil
    /\ Deref(ev.upd).ErrorCode # Nil
    /\ \E r \in store : r.TwilioSID = ev.sid /\ r.ErrorCode = Deref(ev.upd).ErrorCode

\* C5: a GetMessage answered from the cache returns the message with the status
\* the store holds for it.  (A GetMessage answered from the store returns the
\* row as read after the request began.)
C5_CacheNotStale ==
    (ev.op = "GetMessage" /\ ev.code = StatusOK /\ ev.src = "cache")
        => \A r \in store :
               r.ID = Deref(ev.msg).ID => r.Status = Deref(ev.msg).Status

UniqueSid(rows) ==
    \A r1, r2 \in rows : r1.TwilioSID = r2.TwilioSID => r1 = r2

\* the step is HandleMessage's INSERT for a message whose MessageSid is stored
Redelivery ==
    /\ nextId' = nextId + 1
    /\ ev'.msg # Nil
    /\ Deref(ev'.msg).Direction = MessageDirectionInbound
    /\ \E r \in store : r.TwilioSID = ev'.sid

\* row carries the content of message
Carries(row, message) ==
    /\ row.Content = message.Content
    /\ row.Type = message.Type
    /\ row.MediaURL = message.MediaURL
    /\ row.MediaType = message.MediaType

\* C6 as stated: the store holds at most one row per provider identifier, and
\* an inbound delivery of a stored identifier updates the row to the delivery.
C6_RedeliveryUpdates ==
    [][/\ UniqueSid(store')
       /\ Redelivery =>
              \E r \in store' :
                  r.TwilioSID = ev'.sid /\ Carries(r, Deref(ev'.msg))]_vars

\* C6 as amended: the store holds at most one row per provider identifier, and
\* an inbound delivery of a stored identifier fails at the INSERT and leaves
\* every row as it is.
C6_RedeliveryRejected ==
    [][/\ UniqueSid(store')
       /\ Redelivery =>
              /\ store' = store
              /\ ev'.op = "HandleMessage"
              /\ ev'.err = "failed to store message"]_vars

\* C6 witness: a delivery of a stored identifier has been handled
C6_Witness ==
    /\ ev.op = "HandleMessage"
    /\ ev.err = "failed to store message"
    /\ \E r \in store : r.TwilioSID = ev.sid /\ r.ID # Deref(ev.msg).ID

\* C7: a status callback for an identifier that matches no row is answered 200,
\* leaves store, cache and tasks as they are, and UpdateMessageStatus reports
\* it as not found whenever the database executes the UPDATE.
C7_UnknownMessage ==
    [][\A w \in StatusWebhooks :
           (\A r \in store : r.TwilioSID # w.MessageSid)
               => /\ UpdateMessageStatus(store, ProcessStatusUpdate(w), TRUE).err
                         = "message not found for status update"
                  /\ (ev'.op = "HandleStatus" /\ ev'.sid = w.MessageSid)
                         => /\ ev'.code = StatusOK
                            /\ ev'.err \in {"message not found for status update",
                                            "failed to update message status"}
                            /\ store' = store
                            /\ cache' = cache
                            /\ tasks' = tasks]_vars

\* C7 witness: a callback for an unknown identifier has been answered while
\* another message is stored
C7_Witness ==
    /\ ev.op = "HandleStatus"
    /\ ev.err = "message not found for status update"
    /\ ev.code = StatusOK
    /\ store # {}
    /\ \A r \in store : r.TwilioSID # ev.sid

\* C8: every message or status webhook whose body was parsed is answered 200,
\* whatever StoreMessage or UpdateMessageStatus returned.
C8_WebhookAcknowledged ==
    (ev.op \in {"HandleMessage", "HandleStatus"} /\ ev.err # "Invalid webhook data")
        => ev.code = StatusOK

\* C8 witness: a status webhook whose UPDATE failed has been answered
C8_Witness ==
    /\ ev.op = "HandleStatus"
    /\ ev.err = "failed to update message status"

\* the step answered a webhook whose store write failed
StoreWriteFailed ==
    \/ ev.op = "HandleMessage" /\ ev.err = "failed to store message"
    \/ ev.op = "HandleStatus" /\ ev.err = "failed to update message status"

\* C9 as stated: a webhook whose store write failed is answered with a 5xx.
C9_StoreFailureSurfaced ==
    StoreWriteFailed => ev.code >= StatusInternalServerError

\* C9 as amended: a webhook whose store write failed is still answered 200.
C9_StoreFailureAcknowledged ==
    StoreWriteFailed => ev.code = StatusOK

\* C9 witness: a message webhook whose INSERT failed has been answered
C9_Witness ==
    /\ ev.op = "HandleMessage"
    /\ ev.err = "failed to store message"

\* C10: every message handed to a downstream task is a row of the store.
C10_DispatchOnlyStored ==
    \A t \in tasks : \E r \in store : r.ID = t.message.ID

\* the step received a webhook whose signature does not verify against the
\* configured secret
Forged ==
    /\ secret # ""
    /\ rx' # Nil
    /\ Deref(rx').url \in {urlMessages, urlStatus}
    /\ ~verifySignature(Deref(rx').signature, secret, "", Deref(rx').url)

\* C11: with a secret configured, a webhook whose signature does not verify is
\* answered 401 and the step leaves store, cache and tasks as they are.
C11_ForgedRejected ==
    [][Forged => /\ ev'.code = StatusUnauthorized
                 /\ store' = store
                 /\ cache' = cache
                 /\ tasks' = tasks]_vars

\* the form of the status webhook the last step handled
StatusForm == Deref(rx).form

\* the last step ran HandleStatus on a parsed status webhook
StatusHandled == ev.op = "HandleStatus" /\ rx # Nil

\* C12: a status callback with a non-empty error code that matched a row leaves
\* the row failed, with the callback's error code and message, whatever
\* SmsStatus it reports and whatever status the row had.
C12_ErrorForcesFailed ==
    (StatusHandled /\ ev.err = "nil" /\ StatusForm.ErrorCode # "")
        => \A r \in store :
               r.TwilioSID = StatusForm.MessageSid
                   => /\ r.Status = MessageStatusFailed
                      /\ r.ErrorCode = Ptr(StatusForm.ErrorCode)
                      /\ r.ErrorMsg = Ptr(StatusForm.ErrorMessage)

\* C12 witness: a callback reporting delivered together with an error code has
\* been applied to a row
C12_Witness ==
    /\ StatusHandled
    /\ ev.err = "nil"
    /\ StatusForm.ErrorCode # ""
    /\ StatusForm.SmsStatus = S_delivered
    /\ \E r \in store : r.TwilioSID = StatusForm.MessageSid

\* s and t are equal up to the case of their letters
EqualFold(s, t) ==
    /\ Len(s) = Len(t)
    /\ \A i \in 1..Len(s) :
           \/ s[i] = t[i]
           \/ \E k \in 1..26 : {s[i], t[i]} = {Upper[k], Lower[k]}

\* the status the mapping table of the claim gives for a provider status
TableStatus(s) ==
    CASE EqualFold(s, S_queued) \/ EqualFold(s, S_accepted) -> MessageStatusPending
      [] EqualFold(s, S_sent) -> MessageStatusSent
      [] EqualFold(s, S_delivered) -> MessageStatusDelivered
      [] EqualFold(s, S_read) -> MessageStatusRead
      [] EqualFold(s, S_failed) \/ EqualFold(s, S_undelivered) -> MessageStatusFailed
      [] OTHER -> MessageStatusPending

\* C13: a status callback without an error code, whatever its SmsStatus string,
\* is processed without error: its update carries the status of the table, a
\* matching row gets that status, and the only errors are those of the UPDATE.
C13_StatusMappingTotal ==
    (StatusHandled /\ StatusForm.ErrorCode = "")
        => /\ ProcessStatusUpdate(StatusForm).Status = TableStatus(StatusForm.SmsStatus)
           /\ ev.code = StatusOK
           /\ ev.err \in {"nil", "message not found for status update",
                          "failed to update message status"}
           /\ ev.err = "nil"
                  => /\ ev.upd = Ptr(ProcessStatusUpdate(StatusForm))
                     /\ \A r \in store :
                            r.TwilioSID = StatusForm.MessageSid
                                => r.Status = TableStatus(StatusForm.SmsStatus)

\* C13 witness: a callback with a status the mapping does not list has set a
\* row to pending
C13_Witness ==
    /\ StatusHandled
    /\ ev.err = "nil"
    /\ StatusForm.SmsStatus = S_sending
    /\ StatusForm.ErrorCode = ""
    /\ \E r \in store :
           r.TwilioSID = StatusForm.MessageSid /\ r.Status = MessageStatusPending

\* the form of the message webhook the last step handled
MessageForm == Deref(rx).form

\* the last step ran HandleMessage on a parsed message webhook, up to the
\* INSERT of StoreMessage
MessageHandled ==
    /\ rx # Nil
    /\ Deref(rx).url = urlMessages
    /\ ev.op \in {"HandleMessage", "StoreMessage.insert"}

\* the internal ids in use: of rows, of suspended requests, of started tasks
UsedIds ==
    {r.ID : r \in store} \cup {q.id : q \in inflight}
        \cup {t.message.ID : t \in tasks}

\* C14: the message HandleMessage builds from a parsed webhook has an id no
\* row, request or task had before, the webhook's MessageSid and Body,
\* direction inbound and status delivered; with NumMedia 0 it is a text
\* message without media.
C14_InboundMessageBuilt ==
    [][MessageHandled' =>
           LET m == Deref(ev'.msg)
               w == MessageForm'
           IN  /\ m.ID \notin UsedIds
               /\ m.TwilioSID = w.MessageSid
               /\ m.Direction = MessageDirectionInbound
               /\ m.Status = MessageStatusDelivered
               /\ m.Content = w.Body
               /\ ev'.op = "StoreMessage.insert" => m \in store'
               /\ w.NumMedia = "0" => /\ m.Type = MessageTypeText
                                      /\ m.MediaURL = Nil
                                      /\ m.MediaType = Nil]_vars

\* C14 witness: a webhook with NumMedia 0 that still names a media url has
\* been stored as a text message
C14_Witness ==
    /\ MessageHandled
    /\ ev.op = "StoreMessage.insert"
    /\ MessageForm.NumMedia = "0"
    /\ MessageForm.MediaUrl0 # ""
    /\ Deref(ev.msg) \in store

\* p is a prefix of s
Prefixed(s, p) == \A i \in 1..Len(p) : i <= Len(s) /\ s[i] = p[i]

\* the type the claim's table gives for a content type
TableType(ct) ==
    IF Prefixed(ct, S_image) THEN MessageTypeImage
    ELSE IF Prefixed(ct, S_video) THEN MessageTypeVideo
    ELSE IF Prefixed(ct, S_audio) THEN MessageTypeAudio
    ELSE IF Prefixed(ct, S_application) THEN MessageTypeDocument
    ELSE MessageTypeText

\* the webhook carries media: NumMedia > 0 and a media url
MediaBearing(w) == w.NumMedia \in {"1", "2"} /\ w.MediaUrl0 # ""

\* C15: the message built from a media-bearing webhook has the type the table
\* gives for MediaContentType0, and refers to the webhook's media.
C15_TypeFromContentType ==
    (MessageHandled /\ MediaBearing(MessageForm))
        => LET m == Deref(ev.msg) IN
           /\ m.Type = TableType(MessageForm.MediaContentType0)
           /\ m.MediaURL = Ptr(MessageForm.MediaUrl0)
           /\ m.MediaType = Ptr(MessageForm.MediaContentType0)

\* C15 witness: a webhook with media of type application/zip has been stored
\* as a document
C15_Witness ==
    /\ MessageHandled
    /\ MessageForm.MediaContentType0 = S_zip
    /\ \E r \in store : r.ID = Deref(ev.msg).ID /\ r.Type = MessageTypeDocument

\* C20: no row of the store has an empty provider message identifier.
C20_SidRequired ==
    \A r \in store : r.TwilioSID # ""

\* the rows stored under a provider identifier
RowsOf(sid) == {r \in store : r.TwilioSID = sid}

\* the last step answered a send the provider accepted and StoreMessage stored
SendStored ==
    /\ ev.op = "SendMessage"
    /\ ev.code = StatusOK
    /\ ev.err \in {"nil", "failed to cache message"}

\* C16: right after the INSERT of an accepted send succeeded the store holds
\* exactly one row under the provider's identifier, outbound, with status sent
\* and the id of the send response; when the response is sent that row is
\* still the only one and has the id the response carries.
C16_OutboundRecorded ==
    /\ (ev.op = "StoreMessage.insert"
            /\ Deref(ev.msg).Direction = MessageDirectionOutbound)
           => /\ ev.sid \in issued
              /\ RowsOf(ev.sid) = {Deref(ev.msg)}
              /\ Deref(ev.msg).Status = MessageStatusSent
    /\ SendStored
           => /\ Cardinality(RowsOf(ev.sid)) = 1
              /\ \A r \in RowsOf(ev.sid) :
                     /\ r.ID = Deref(ev.msg).ID
                     /\ r.Direction = MessageDirectionOutbound

\* C16 witness: a media send has been stored and answered
C16_Witness ==
    /\ SendStored
    /\ Deref(ev.msg).MediaURL # Nil
    /\ \E r \in store : r.TwilioSID = ev.sid /\ r.Status = MessageStatusSent

\* C17: a send the provider refuses is answered with an error status and the
\* step leaves store and cache as they are.
C17_SendFailedNoRecord ==
    [][(ev'.op = "SendMessage" /\ ev'.err = "failed to send message")
           => /\ ev'.code >= StatusBadRequest
              /\ store' = store
              /\ cache' = cache
              /\ nextId' = nextId]_vars

\* C17 witness: a send has been refused while another message is stored
C17_Witness ==
    /\ ev.op = "SendMessage"
    /\ ev.err = "failed to send message"
    /\ ev.code = StatusInternalServerError
    /\ store # {}

\* C18: a send the provider accepted whose INSERT failed is answered 200 with
\* the provider's identifier, and no row and no cache entry exists for it.
C18_SendAnsweredDespiteStore ==
    (ev.op = "SendMessage" /\ ev.err = "failed to store message")
        => /\ ev.code = StatusOK
           /\ ev.sid \in issued
           /\ Deref(ev.msg).TwilioSID = ev.sid
           /\ RowsOf(ev.sid) = {}
           /\ \A r \in store : r.ID # Deref(ev.msg).ID
           /\ cache[Deref(ev.msg).ID] = Nil

\* C18 witness: a text send has been answered after its INSERT failed
C18_Witness ==
    /\ ev.op = "SendMessage"
    /\ ev.err = "failed to store message"
    /\ Deref(ev.msg).Type = MessageTypeText

\* C19: the outbound message handed to StoreMessage never has the unset type
\* (a request without type is recorded as text), and every row has one of the
\* enumerated types.
C19_UnsetTypeIsText ==
    /\ \A q \in inflight :
           (q.kind = "SendMessage" /\ q.pc = "store")
               => Deref(q.msg).Type # ""
    /\ \A r \in store : r.Type \in MessageTypes

\* the GetMessage request that the step ended, if it ended one at pc
Ended(pc) ==
    {q \in inflight \ inflight' : q.kind = "GetMessage" /\ q.pc = pc}

\* C21: a lookup of a stored message whose read of the store fails is not
\* answered as not found.
C21_UnavailableIsNotNotFound ==
    [][\A q \in Ended("query") :
           (ev'.op = "GetMessage" /\ \E r \in store : r.ID = q.id)
               => ev'.code # StatusNotFound]_vars

\* C30: GetMessage is cache-aside.  A hit answers with the cached message in
\* one step, without a read of the store; a miss that finds the row goes on
\* with the row read, answers with it and sets the cache entry of its id to it
\* (unless Redis fails the SET); a miss that finds no row answers not found and
\* leaves the cache as it is.
C30_CacheAside ==
    [][/\ (ev'.op = "GetMessage" /\ ev'.src = "cache")
              => /\ ev'.code = StatusOK
                 /\ \E id \in Ids : cache[id] # Nil /\ ev'.msg = cache[id]
                 /\ UNCHANGED <<store, cache, inflight>>
       /\ \A q \in Ended("query") :
              /\ cache' = cache
              /\ IF \E r \in store : r.ID = q.id
                 THEN ev'.op = "QueryRow"
                          => \E r \in store :
                                 /\ r.ID = q.id
                                 /\ inflight' = (inflight \ {q}) \cup
                                        {Request("GetMessage", "cache", q.id, Ptr(r))}
                 ELSE /\ ev'.op = "GetMessage"
                      /\ ev'.code = StatusNotFound
                      /\ inflight' = inflight \ {q}
       /\ \A q \in Ended("cache") :
              /\ ev'.op = "GetMessage" /\ ev'.code = StatusOK
              /\ ev'.msg = q.msg
              /\ Deref(q.msg).ID = q.id
              /\ cache' = IF ev'.err = "nil"
                          THEN [cache EXCEPT ![q.id] = q.msg]
                          ELSE cache]_vars

\* C30 witness: a lookup has been answered from the store and the cache entry
\* of the message holds the row as the store has it
C30_Witness ==
    /\ ev.op = "GetMessage"
    /\ ev.src = "store"
    /\ ev.err = "nil"
    /\ cache[Deref(ev.msg).ID] = ev.msg
    /\ Deref(ev.msg) \in store

\* the last step answered a webhook verification request
VerifyHandled == ev.op = "VerifyWebhook" /\ rx # Nil

\* the query of the verification request the last step answered
VerifyQuery == Deref(rx).form

\* C22 as stated: the verification GET answers 200 with the challenge whenever
\* mode is subscribe, and does not answer 200 otherwise.
C22_ChallengeEchoed ==
    VerifyHandled
        => IF VerifyQuery.mode = "subscribe"
           THEN ev.code = StatusOK /\ ev.msg = Ptr(VerifyQuery.challenge)
           ELSE ev.code # StatusOK

\* C22 as amended: the verification GET answers 200 with the challenge whenever
\* mode is subscribe and the challenge is not empty, and 400 without a body
\* otherwise.
C22_NonEmptyChallengeEchoed ==
    VerifyHandled
        => IF VerifyQuery.mode = "subscribe" /\ VerifyQuery.challenge # ""
           THEN ev.code = StatusOK /\ ev.msg = Ptr(VerifyQuery.challenge)
           ELSE ev.code = StatusBadRequest /\ ev.msg = Nil

\* C22 witness: a subscribe request without a verify token has been answered
\* with its challenge
C22_Witness ==
    /\ VerifyHandled
    /\ VerifyQuery.mode = "subscribe"
    /\ VerifyQuery.verify_token = ""
    /\ ev.code = StatusOK
    /\ ev.msg = Ptr("1158201444")

\* the last step received a send request with a template and no type
TemplateWithoutType ==
    /\ rx # Nil
    /\ Deref(rx).url = urlSend
    /\ Deref(rx).form.Type = ""
    /\ Deref(rx).form.Template # Nil

\* C23: a send request with a template and no type is sent with
\* SendTemplateMessage.
C23_TemplateRequestSentAsTemplate ==
    TemplateWithoutType
        => /\ SendOperation(Deref(rx).form) = "SendTemplateMessage"
           /\ ev.op = "CreateMessage" => ev.src = "SendTemplateMessage"

\* C24: a message or status webhook whose body does not bind is answered 400
\* and the step leaves store, cache, tasks and the requests in flight as they
\* are.
C24_MalformedRejected ==
    [][ev'.err = "Invalid webhook data"
           => /\ ev'.op \in {"HandleMessage", "HandleStatus"}
              /\ ev'.code = StatusBadRequest
              /\ UNCHANGED <<store, cache, tasks, inflight, nextId>>]_vars

\* C24 witness: a message webhook that does not bind has been rejected while a
\* message is stored and cached
C24_Witness ==
    /\ ev.op = "HandleMessage"
    /\ ev.err = "Invalid webhook data"
    /\ ev.code = StatusBadRequest
    /\ \E r \in store : cache[r.ID] = Ptr(r)

\* the goroutine that the step ran to its end, if it ran one
TaskRun ==
    [kind |-> ev'.op, message |-> Deref(ev'.msg)]

\* C25: a step of the media task or of the relay task of a message, whatever
\* its outcome, takes nothing but that task from the pending tasks and leaves
\* store, cache and the requests in flight as they are; the response to a
\* message webhook that binds is 200 whatever the tasks did before it.
C25_TasksIsolated ==
    [][/\ ev'.op \in TaskKinds
           => /\ TaskRun \in tasks
              /\ tasks' = tasks \ {TaskRun}
              /\ UNCHANGED <<store, cache, inflight, nextId>>
       /\ (ev'.op = "HandleMessage" /\ ev'.msg # Nil)
           => ev'.code = StatusOK]_vars

\* C25 witness: the relay of a stored and cached image message failed and its
\* media task ran before the handler answered 200
C25_Witness ==
    /\ ev.op = "HandleMessage"
    /\ ev.code = StatusOK
    /\ ev.msg # Nil
    /\ LET m == Deref(ev.msg) IN
       /\ attempts["forwardToOrchestrator"][m.ID] = <<"failed to send request">>
       /\ attempts["processMediaAsync"][m.ID] = <<"nil">>
       /\ m \in store
       /\ cache[m.ID] = Ptr(m)

\* the HandleMessage requests that the step moved on from pc
HandlerLeft(pc) ==
    {q \in inflight \ inflight' : q.kind = "HandleMessage" /\ q.pc = pc}

\* the HandleMessage requests of message id that have not answered yet
Unanswered(id) ==
    {q \in inflight : q.kind = "HandleMessage" /\ q.id = id}

C27_AtMostOnce ==
    \A kind \in TaskKinds, id \in Ids : Len(attempts[kind][id]) <= 1

\* C27 witness: the relay of a message failed, its handler has answered, no
\* goroutine of the message is pending and another step has been taken since
C27_Witness ==
    \E id \in 1..nextId :
        /\ attempts["forwardToOrchestrator"][id] = <<"failed to send request">>
        /\ Unanswered(id) = {}
        /\ \A t \in tasks : t.message.ID # id
        /\ ev.op # "forwardToOrchestrator"

\* the goroutines the step started
Started == tasks' \ tasks

\* C28: a step that starts goroutines starts them for one message: the relay
\* always, the media task exactly when the message has a media URL; a media
\* task whose content type is of no class of the type table is skipped and
\* ends without an error.
C28_MediaTaskIffMedia ==
    [][/\ Started # {}
           => \E t \in Started :
                  /\ t.kind = "forwardToOrchestrator"
                  /\ \A u \in Started : u.message = t.message
                  /\ t.message.MediaURL # Nil
                         <=> \E u \in Started : u.kind = "processMediaAsync"
       /\ (/\ ev'.op = "processMediaAsync"
           /\ TableType(Deref(TaskRun.message.MediaType)) = MessageTypeText)
           => (ev'.src = "skip" /\ ev'.err = "nil")]_vars

\* C28 witness: the media task of a message with a text/plain attachment has
\* been skipped, and a message without media has its relay pending and no
\* media task
C28_Witness ==
    /\ ev.op = "processMediaAsync"
    /\ Deref(ev.msg).MediaType = Ptr(S_plain)
    /\ ev.src = "skip"
    /\ \E t \in tasks :
           /\ t.kind = "forwardToOrchestrator"
           /\ t.message.MediaURL = Nil
           /\ \A u \in tasks : u.message = t.message => u = t

\* the processor of the media of a message of the given type, by the
\* claim's pairing of types and processors
AnalyzerOf(type) ==
    CASE type = MessageTypeImage -> "processImage"
      [] type = MessageTypeVideo -> "processVideo"
      [] type = MessageTypeAudio -> "processAudio"
      [] type = MessageTypeDocument -> "processDocument"
      [] OTHER -> "skip"

\* C29: the media task of a message calls the processor of the type the
\* message was recorded with, and skips only messages recorded as text.
C29_AnalyzerAgreesWithType ==
    ev.op = "processMediaAsync"
        => ev.src = AnalyzerOf(Deref(ev.msg).Type)

\* C31: every cache entry is a message under its own internal id, and a row
\* with that id is in the store; a message whose store write failed has no
\* cache entry.
C31_CacheWithinStore ==
    /\ \A id \in Ids :
           cache[id] # Nil
               => /\ Deref(cache[id]).ID = id
                  /\ \E r \in store : r.ID = id
    /\ (ev.op = "HandleMessage" /\ ev.err = "failed to store message")
           => cache[Deref(ev.msg).ID] = Nil

\* C31 witness: the store write of a message with a duplicate provider id has
\* failed while the first message of that provider id is stored and cached
C31_Witness ==
    /\ ev.op = "HandleMessage"
    /\ ev.err = "failed to store message"
    /\ \E r \in store :
           /\ r.TwilioSID = ev.sid
           /\ r.ID # Deref(ev.msg).ID
           /\ cache[r.ID] # Nil

\* the errors of the cache, which the code logs as warnings
CacheErrors == {"nil", "failed to cache message"}

\* C32: the step of a message webhook that writes the cache after a
\* successful store write ends with 200, the message stored and no error but
\* a cache warning, whether the cache write succeeds or not; a GetMessage
\* that misses the cache, or cannot read it, goes on to the store, fails only
\* with the store's errors, and answers 200 with the row read whether the
\* cache takes the row or not.
C32_CacheNeverFatal ==
    [][/\ \A q \in HandlerLeft("cache") :
              /\ ev'.op = "HandleMessage"
              /\ ev'.code = StatusOK
              /\ ev'.err \in CacheErrors
              /\ ev'.msg = q.msg
              /\ \E r \in store' : r.ID = q.id
       /\ \A q \in Ended("query") :
              ev'.op = "GetMessage"
                  => ev'.err \in {"message not found", "failed to retrieve message"}
       /\ \A q \in Ended("cache") :
              /\ ev'.op = "GetMessage"
              /\ ev'.code = StatusOK
              /\ ev'.err \in CacheErrors
              /\ ev'.msg = q.msg
              /\ Deref(q.msg).ID = q.id
              /\ \E r \in store : r.ID = q.id]_vars

\* C32 witness: GetMessage has answered 200 with a stored message that is in
\* the cache neither before nor after: the cache write of its StoreMessage
\* and the one of GetMessage failed
C32_Witness ==
    /\ ev.op = "GetMessage"
    /\ ev.code = StatusOK
    /\ ev.err = "failed to cache message"
    /\ ev.src = "store"
    /\ Deref(ev.msg) \in store
    /\ cache[Deref(ev.msg).ID] = Nil

\* r2 is r but for its status, error code and error message
SameButStatus(r, r2) ==
    r2 = [r EXCEPT !.Status = r2.Status,
                   !.ErrorCode = r2.ErrorCode,
                   !.ErrorMsg = r2.ErrorMsg]

\* C33: no step takes a row from the store; a step of HandleStatus adds none,
\* leaves every row of another provider id as it is and changes nothing but
\* status, error code and error message of a row of the callback's provider
\* id; every other step leaves the rows there are as they are.
C33_StatusFrame ==
    [][/\ \A r \in store : \E r2 \in store' : r2.ID = r.ID
       /\ IF ev'.op = "HandleStatus"
          THEN /\ \A r2 \in store' : \E r \in store : r.ID = r2.ID
               /\ \A r \in store :
                      IF r.TwilioSID = ev'.sid
                      THEN \E r2 \in store' : SameButStatus(r, r2)
                      ELSE r \in store'
          ELSE store \subseteq store']_vars

\* C33 witness: a status callback has changed the row of its provider id
\* while a row of another provider id is stored
C33_Witness ==
    /\ ev.op = "HandleStatus"
    /\ ev.upd # Nil
    /\ \E r \in store :
           /\ r.TwilioSID = ev.sid
           /\ r.Status = Deref(ev.upd).Status
           /\ r.Status = MessageStatusFailed
           /\ r.ErrorCode # Nil
    /\ \E r \in store : r.TwilioSID # ev.sid

\* C34: a row of the store with an error code has a non-empty one and has
\* status failed.
C34_ErrorCodeImpliesFailed ==
    \A r \in store :
        r.ErrorCode # Nil
            => (Deref(r.ErrorCode) # "" /\ r.Status = MessageStatusFailed)

\* C34 witness: a callback that reports delivered with an error code has left
\* its row failed with that code, and a row without an error code is stored
C34_Witness ==
    /\ ev.op = "HandleStatus"
    /\ rx # Nil
    /\ Deref(rx).form.SmsStatus = S_delivered
    /\ Deref(rx).form.ErrorCode # ""
    /\ \E r \in store :
           /\ r.TwilioSID = ev.sid
           /\ r.ErrorCode = Ptr(Deref(rx).form.ErrorCode)
           /\ r.Status = MessageStatusFailed

\* the SendMessage requests in flight whose message the provider accepted
\* under sid
Sending(sid) ==
    {q \in inflight : q.kind = "SendMessage" /\ Deref(q.msg).TwilioSID = sid}

\* C35: a status callback that the database executes while the send request
\* of its provider id is still in flight is applied to the row of the
\* message: it is not answered as an unknown message, and the row has the
\* callback's status when the step is over.
C35_ConcurrentCallbackApplied ==
    [][(/\ ev'.op = "HandleStatus"
        /\ Sending(ev'.sid) # {}
        /\ ev'.err \notin {"Invalid webhook data",
                           "failed to update message status"})
           => /\ ev'.err = "nil"
              /\ ev'.upd # Nil
              /\ \E r \in store' :
                     /\ r.TwilioSID = ev'.sid
                     /\ r.Status = Deref(ev'.upd).Status]_vars

\* C36: every message handed to a goroutine has a media URL exactly when it
\* has a media content type, and the messages handed to processMediaAsync
\* have both.
C36_MediaTypeWithMediaURL ==
    \A t \in tasks :
        /\ t.message.MediaURL # Nil <=> t.message.MediaType # Nil
        /\ t.kind = "processMediaAsync"
               => (t.message.MediaURL # Nil /\ t.message.MediaType # Nil)

\* C36 witness: a message whose webhook had a media URL and an empty content
\* type is handed to processMediaAsync with the empty content type set, and a
\* message without media is handed to the relay alone
C36_Witness ==
    /\ \E t \in tasks :
           /\ t.kind = "processMediaAsync"
           /\ t.message.MediaURL = Ptr(mediaUrl)
           /\ t.message.MediaType = Ptr(<<>>)
    /\ \E t \in tasks :
           /\ t.kind = "forwardToOrchestrator"
           /\ t.message.MediaURL = Nil
           /\ t.message.MediaType = Nil

\* the step received a message or status webhook
WebhookReceived ==
    /\ rx' # Nil
    /\ Deref(rx').url \in {urlMessages, urlStatus}

\* C37: with a secret configured, a message or status webhook without the
\* signature header is answered 401 by the middleware and the step leaves
\* store, cache, tasks and the requests in flight as they are.
C37_MissingSignatureRejected ==
    [][(secret # "" /\ WebhookReceived /\ Deref(rx').signature = <<>>)
           => /\ ev'.op = "WhatsAppSignatureVerification"
              /\ ev'.code = StatusUnauthorized
              /\ UNCHANGED <<store, cache, tasks, inflight, nextId>>]_vars

\* C37 witness: with a secret configured and a message stored, a message
\* webhook without the header has been answered 401
C37_Witness ==
    /\ secret # ""
    /\ rx # Nil
    /\ Deref(rx).url = urlMessages
    /\ Deref(rx).signature = <<>>
    /\ ev.code = StatusUnauthorized
    /\ store # {}

\* C38: without a secret, no message or status webhook is answered by the
\* middleware: each is handled by its handler, whatever its signature header.
C38_NoSecretNoVerification ==
    [][(secret = "" /\ WebhookReceived)
           => /\ ev'.op \in {"HandleStatus", "HandleMessage",
                              "StoreMessage.insert"}
              /\ ev'.code # StatusUnauthorized]_vars

\* C38 witness: without a secret, a status webhook without the header has
\* been handled and has updated the row of its provider id
C38_Witness ==
    /\ secret = ""
    /\ rx # Nil
    /\ Deref(rx).url = urlStatus
    /\ Deref(rx).signature = <<>>
    /\ ev.op = "HandleStatus"
    /\ ev.upd # Nil
    /\ \E r \in store : r.TwilioSID = ev.sid /\ r.Status = Deref(ev.upd).Status

\* the address SendTextMessage hands to the provider
ToNumber == Deref(ev.msg).To

\* C39: the destination address handed to the provider is
\* formatWhatsAppNumber of the request's, starts with the scheme whatsapp:,
\* and formatWhatsAppNumber applied to it returns it unchanged.
C39_FormatIdempotent ==
    ev.op = "CreateMessageParams"
        => /\ ToNumber = formatWhatsAppNumber(Deref(rx).form.To)
           /\ HasPrefix(ToNumber, S_whatsapp)
           /\ formatWhatsAppNumber(ToNumber) = ToNumber

\* C39 witness: a number written with spaces, a hyphen or parentheses has
\* been cleaned and given the + and the scheme
C39_Witness ==
    /\ ev.op = "CreateMessageParams"
    /\ Deref(rx).form.To = <<"(", "1", ")">>
    /\ ToNumber = S_whatsapp \o <<"+", "1">>

====
